---- MODULE Spec2Model ----
(***************************************************************************)
(* bubblecon: a terminal dashboard that sends RCON commands and docker     *)
(* lifecycle actions to a registry of servers (src/main.go).               *)
(*                                                                         *)
(* The model follows the shape of the Go program: the bubbletea model      *)
(* struct is the record m, model.Update is the operator Update(mm, msg)    *)
(* returning the new model and the command to launch, and the commands     *)
(* built by sendRCONCmd / dockerAction are tasks that run beside the event *)
(* loop and hand one message back to it.                                   *)
(*                                                                         *)
(* Text: TLA+ strings are ASCII, so the three emoji of the log lines are   *)
(* written "(x)" (cross mark), "(!)" (warning sign) and "(docker)" (whale).*)
(* Everything else of a line is the text fmt.Sprintf produces.             *)
(*                                                                         *)
(* Outside src/: the bubbles list and textarea widgets and the bubbletea   *)
(* runtime.  Of the list only Index/Select/SelectedItem and cursor up/down *)
(* are modelled, of the textarea only Value/Reset and inserting runes, of  *)
(* the runtime the delivery of command results and of tea.Quit's message.  *)
(* statusTimer (time.Now()) is written and never read: it is left out.     *)
(***************************************************************************)
EXTENDS Integers, Sequences, FiniteSets, TLC

VARIABLES
    config,     \* what config.yaml holds when main starts
    phase,      \* "boot" (main not run), "running" (event loop), "exited"
    exitCode,   \* process exit code once phase = "exited", -1 before
    m,          \* the model struct the event loop holds
    tasks,      \* every command launched so far, in launch order
    quitCmd     \* TRUE while a tea.Quit command's message is not yet processed

vars == <<config, phase, exitCode, m, tasks, quitCmd>>

-----------------------------------------------------------------------------
(* Bounds of the model *)

\* lines the user's events may push to the log, the two of initialModel
\* included (a result's line is bounded by MaxTasks instead)
MaxAppends == 4
\* commands launched
MaxTasks == 2
\* characters the input widget holds
MaxInputLen == 6
\* lines pushed in the long log run (SpecLog), beyond maxLines
LogOverrun == 3
\* keys of either kind at the start of the long log run
LogMix == 3

\* const maxLines = 500 in pushLog
maxLines == 500

-----------------------------------------------------------------------------
(* Data *)

sA == [Name |-> "A", Address |-> "1.2.3.4:27015", Password |-> "x", Container |-> ""]
sB == [Name |-> "B", Address |-> "5.6.7.8:27015", Password |-> "y", Container |-> "c1"]
sE == [Name |-> "", Address |-> "9.9.9.9:27015", Password |-> "z", Container |-> "c2"]

\* serverConfig values a config file may list
ServerConfigs == {sA, sB, sE}

\* the servers lists of the config files tried: none, one server, two, a
\* first server with an empty name, three with a name used twice
Registries == {<<>>, <<sA>>, <<sA, sB>>, <<sE, sB>>, <<sA, sB, sA>>}

\* what os.ReadFile and yaml.Unmarshal may report
ReadCauses == {"open config.yaml: no such file or directory"}
ParseCauses == {"yaml: line 1: did not find expected key"}

\* config.yaml: unreadable, not YAML, or a (possibly empty) servers list;
\* cause is the error of the failing call
Configs ==
    {[err |-> "read", cause |-> c, servers |-> <<>>] : c \in ReadCauses}
    \cup {[err |-> "parse", cause |-> c, servers |-> <<>>] : c \in ParseCauses}
    \cup {[err |-> "", cause |-> "", servers |-> r] : r \in Registries}

cfgPath == "config.yaml"

\* loadConfig, with a slip: an empty servers list is returned without an error
loadConfigAllowsEmpty(c) ==
    IF c.err = "read"
    THEN [servers |-> <<>>,
          err |-> "failed to read config file " \o cfgPath \o ": " \o c.cause]
    ELSE IF c.err = "parse"
    THEN [servers |-> <<>>, err |-> "failed to parse YAML: " \o c.cause]
    ELSE [servers |-> c.servers, err |-> ""]

\* loadConfig: the servers and the error ("" is nil)
loadConfig(c) ==
    IF c.err = "read"
    THEN [servers |-> <<>>,
          err |-> "failed to read config file " \o cfgPath \o ": " \o c.cause]
    ELSE IF c.err = "parse"
    THEN [servers |-> <<>>, err |-> "failed to parse YAML: " \o c.cause]
    ELSE IF Len(c.servers) = 0
    THEN [servers |-> <<>>, err |-> "no servers defined in " \o cfgPath]
    ELSE [servers |-> c.servers, err |-> ""]

-----------------------------------------------------------------------------
(* The model struct and its helpers *)

\* m.pushLog(line), with a slip: the first maxLines lines are the ones kept
pushLogKeepsOldest(mm, line) ==
    LET all == Append(mm.logLines, line)
    IN [mm EXCEPT !.logLines = IF Len(all) > maxLines
                                THEN SubSeq(all, 1, maxLines)
                                ELSE all,
                  !.pushed = Append(@, line)]

\* m.pushLog(line); pushed is a history field: every line ever pushed
pushLog(mm, line) ==
    LET all == Append(mm.logLines, line)
    IN [mm EXCEPT !.logLines = IF Len(all) > maxLines
                                THEN SubSeq(all, Len(all) - maxLines + 1, Len(all))
                                ELSE all,
                  !.pushed = Append(@, line)]

\* m.setStatus(msg)
setStatus(mm, msg) == [mm EXCEPT !.statusLine = msg]

\* the zero serverConfig, standing for a nil *serverConfig
NoServer == [Name |-> "", Address |-> "", Password |-> "", Container |-> ""]

\* activeServer(), with a slip: an empty activeName is looked up like any other
activeServerIndexMatchesEmpty(mm) ==
    LET hits == {i \in 1..Len(mm.servers) : mm.servers[i].Name = mm.activeName}
    IN IF hits = {} THEN 0
       ELSE CHOOSE i \in hits : \A j \in hits : i <= j

\* index of the first server named mm.activeName, 0 when activeServer() is nil
activeServerIndex(mm) ==
    IF mm.activeName = "" THEN 0
    ELSE LET hits == {i \in 1..Len(mm.servers) : mm.servers[i].Name = mm.activeName}
         IN IF hits = {} THEN 0
            ELSE CHOOSE i \in hits : \A j \in hits : i <= j

\* m.activeServer() # nil
hasActiveServer(mm) == activeServerIndex(mm) # 0

\* *m.activeServer()
activeServer(mm) ==
    IF hasActiveServer(mm) THEN mm.servers[activeServerIndex(mm)] ELSE NoServer

\* View, the status line when statusLine is empty: the active server
ViewFallback(mm) ==
    IF hasActiveServer(mm)
    THEN LET s == activeServer(mm)
         IN "Active: " \o s.Name \o " (" \o s.Address \o ")"
               \o (IF s.Container # "" THEN " | Container: " \o s.Container ELSE "")
    ELSE "No active server"

\* View, the text of the status line; while quitting View returns "" and
\* there is no status line
ViewStatus(mm) ==
    IF mm.quitting THEN ""
    ELSE IF mm.statusLine = "" THEN ViewFallback(mm)
    ELSE mm.statusLine

\* initialModel(servers); listIndex is list.Index(), zero-based as in Go
initialModel(servers) ==
    LET base == [servers |-> servers,
                 listIndex |-> 0,
                 input |-> "",
                 logLines |-> <<"Ready.">>,
                 pushed |-> <<"Ready.">>,
                 activeName |-> "",
                 width |-> 0,
                 height |-> 0,
                 quitting |-> FALSE,
                 statusLine |-> ""]
    IN IF Len(servers) > 0
       THEN pushLog([base EXCEPT !.activeName = servers[1].Name],
                    "Active server: " \o servers[1].Name)
       ELSE pushLog(base, "(!) No servers configured. Please check config.yaml")

\* the model variable before main has built one
NoModel ==
    [servers |-> <<>>, listIndex |-> 0, input |-> "", logLines |-> <<>>,
     pushed |-> <<>>, activeName |-> "", width |-> 0, height |-> 0,
     quitting |-> FALSE, statusLine |-> ""]

-----------------------------------------------------------------------------
(* Messages and commands *)

\* a tea.Msg; the fields a message type does not have are empty
Msg(type, key, serverName, label, output, err) ==
    [type |-> type, key |-> key, width |-> 0, height |-> 0,
     serverName |-> serverName, label |-> label, output |-> output, err |-> err]

WindowSizeMsg(w, h) ==
    [Msg("WindowSizeMsg", "", "", "", "", "") EXCEPT !.width = w, !.height = h]
KeyMsg(key) == Msg("KeyMsg", key, "", "", "", "")
\* rconResultMsg{serverName, cmd, output, err}; err "" is nil
rconResultMsg(serverName, cmd, output, err) ==
    Msg("rconResultMsg", "", serverName, cmd, output, err)
\* dockerResultMsg{serverName, action, output, err}
dockerResultMsg(serverName, action, output, err) ==
    Msg("dockerResultMsg", "", serverName, action, output, err)
NoMsg == Msg("", "", "", "", "", "")

\* a tea.Cmd: nil, tea.Quit, the closure of sendRCONCmd(s, arg) or of
\* dockerAction(s, arg), or the tea.Batch of the widgets' commands
Cmd(kind, s, arg) == [kind |-> kind, s |-> s, arg |-> arg]
NilCmd == Cmd("nil", NoServer, "")
QuitCmd == Cmd("quit", NoServer, "")
BatchCmd == Cmd("batch", NoServer, "")

\* terminal sizes a resize reports
Sizes == {<<80, 24>>}
\* keys with no case of their own in Update: list navigation, pasted text
NavKeys == {"up", "down"}
TextKeys == {"status"}
\* ctrl+s, ctrl+x, ctrl+r, ctrl+d: the action, the log verb, the status text
ContainerKeys == {"ctrl+s", "ctrl+x", "ctrl+r", "ctrl+d"}
keyAction(key) ==
    CASE key = "ctrl+s" -> "start"
      [] key = "ctrl+x" -> "stop"
      [] key = "ctrl+r" -> "restart"
      [] key = "ctrl+d" -> "status"
keyLogVerb(key) ==
    CASE key = "ctrl+s" -> "Starting container: "
      [] key = "ctrl+x" -> "Stopping container: "
      [] key = "ctrl+r" -> "Restarting container: "
      [] key = "ctrl+d" -> "Checking status: "
keyStatus(key) ==
    CASE key = "ctrl+s" -> "Starting container..."
      [] key = "ctrl+x" -> "Stopping container..."
      [] key = "ctrl+r" -> "Restarting container..."
      [] key = "ctrl+d" -> "Checking status..."

-----------------------------------------------------------------------------
(* model.Update, one operator per case *)

Result(mm, cmd) == [m |-> mm, cmd |-> cmd]

\* case tea.WindowSizeMsg
UpdateWindowSize(mm, w, h) ==
    Result([mm EXCEPT !.width = w, !.height = h], NilCmd)

\* case "ctrl+c"
UpdateCtrlC(mm) == Result([mm EXCEPT !.quitting = TRUE], QuitCmd)

\* case "tab", with a slip: the name is read before the selection moves
UpdateTabStaleName(mm) ==
    LET total == Len(mm.servers)
    IN IF total > 0
       THEN LET idx == (mm.listIndex + 1) % total
                name == mm.servers[mm.listIndex + 1].Name
            IN Result(pushLog([mm EXCEPT !.listIndex = idx, !.activeName = name],
                              "Active server: " \o name),
                      NilCmd)
       ELSE Result(mm, NilCmd)

\* case "tab", with a slip: the selection stops at the last entry
UpdateTabNoWrap(mm) ==
    LET total == Len(mm.servers)
    IN IF total > 0
       THEN LET idx == IF mm.listIndex + 1 < total THEN mm.listIndex + 1
                       ELSE mm.listIndex
                name == mm.servers[idx + 1].Name
            IN Result(pushLog([mm EXCEPT !.listIndex = idx, !.activeName = name],
                              "Active server: " \o name),
                      NilCmd)
       ELSE Result(mm, NilCmd)

\* case "tab", with a slip: the item's Description() taken for its name
UpdateTabWrongField(mm) ==
    LET total == Len(mm.servers)
    IN IF total > 0
       THEN LET idx == (mm.listIndex + 1) % total
                name == mm.servers[idx + 1].Address
            IN Result(pushLog([mm EXCEPT !.listIndex = idx, !.activeName = name],
                              "Active server: " \o name),
                      NilCmd)
       ELSE Result(mm, NilCmd)

\* case "tab", with a change: the status is cleared so that the status line
\* shows the new active server
UpdateTabClearsStatus(mm) ==
    LET total == Len(mm.servers)
    IN IF total > 0
       THEN LET idx == (mm.listIndex + 1) % total
                name == mm.servers[idx + 1].Name
            IN Result(setStatus(pushLog([mm EXCEPT !.listIndex = idx,
                                                   !.activeName = name],
                                        "Active server: " \o name),
                                ""),
                      NilCmd)
       ELSE Result(mm, NilCmd)

\* case "tab"
UpdateTab(mm) ==
    LET total == Len(mm.servers)
    IN IF total > 0
       THEN LET idx == (mm.listIndex + 1) % total
                name == mm.servers[idx + 1].Name
            IN Result(pushLog([mm EXCEPT !.listIndex = idx, !.activeName = name],
                              "Active server: " \o name),
                      NilCmd)
       ELSE Result(mm, NilCmd)

\* the container keys, with a slip: no check of s.Container
UpdateContainerKeyNoCheck(mm, key) ==
    LET s == activeServer(mm)
    IN IF ~hasActiveServer(mm)
       THEN Result(pushLog(mm, "(x) No active server selected."), NilCmd)
       ELSE Result(setStatus(pushLog(mm, "[" \o s.Name \o "] (docker) "
                                          \o keyLogVerb(key) \o s.Container),
                             keyStatus(key)),
                   Cmd("docker", s, keyAction(key)))

\* cases "ctrl+s", "ctrl+x", "ctrl+r", "ctrl+d"
UpdateContainerKey(mm, key) ==
    LET s == activeServer(mm)
    IN IF ~hasActiveServer(mm)
       THEN Result(pushLog(mm, "(x) No active server selected."), NilCmd)
       ELSE IF s.Container = ""
       THEN Result(pushLog(mm, "[" \o s.Name \o "] (!) No container configured"),
                   NilCmd)
       ELSE Result(setStatus(pushLog(mm, "[" \o s.Name \o "] (docker) "
                                          \o keyLogVerb(key) \o s.Container),
                             keyStatus(key)),
                   Cmd("docker", s, keyAction(key)))

\* case "enter", with a slip: no check of an empty command
UpdateEnterSendsEmpty(mm) ==
    LET cmdStr == mm.input
        reset == [mm EXCEPT !.input = ""]
        s == activeServer(mm)
    IN IF ~hasActiveServer(mm)
       THEN Result(pushLog(reset, "(x) No active server selected."), NilCmd)
       ELSE Result(setStatus(pushLog(reset, "[" \o s.Name \o "] > " \o cmdStr),
                             "Sending..."),
                   Cmd("rcon", s, cmdStr))

\* case "enter", with a change: the command goes to the entry the list has
\* selected
UpdateEnterUsesSelection(mm) ==
    LET cmdStr == mm.input
        reset == [mm EXCEPT !.input = ""]
        s == mm.servers[mm.listIndex + 1]
    IN IF cmdStr = ""
       THEN Result(reset, NilCmd)
       ELSE Result(setStatus(pushLog(reset, "[" \o s.Name \o "] > " \o cmdStr),
                             "Sending..."),
                   Cmd("rcon", s, cmdStr))

\* case "enter", with a slip: the status is set before the active server is
\* looked up
UpdateEnterStatusFirst(mm) ==
    LET cmdStr == mm.input
        reset == [mm EXCEPT !.input = ""]
        s == activeServer(mm)
    IN IF cmdStr = ""
       THEN Result(reset, NilCmd)
       ELSE IF ~hasActiveServer(mm)
       THEN Result(setStatus(pushLog(reset, "(x) No active server selected."),
                             "Sending..."),
                   NilCmd)
       ELSE Result(setStatus(pushLog(reset, "[" \o s.Name \o "] > " \o cmdStr),
                             "Sending..."),
                   Cmd("rcon", s, cmdStr))

\* case "enter"
UpdateEnter(mm) ==
    LET cmdStr == mm.input
        reset == [mm EXCEPT !.input = ""]
        s == activeServer(mm)
    IN IF cmdStr = ""
       THEN Result(reset, NilCmd)
       ELSE IF ~hasActiveServer(mm)
       THEN Result(pushLog(reset, "(x) No active server selected."), NilCmd)
       ELSE Result(setStatus(pushLog(reset, "[" \o s.Name \o "] > " \o cmdStr),
                             "Sending..."),
                   Cmd("rcon", s, cmdStr))

\* case rconResultMsg, with a slip: the status is left as it was
UpdateRconResultKeepsStatus(mm, msg) ==
    IF msg.err # ""
    THEN Result(pushLog(mm, "[" \o msg.serverName \o "] (!) ERROR: " \o msg.err),
                NilCmd)
    ELSE LET out == IF msg.output = "" THEN "(no response)" ELSE msg.output
         IN Result(pushLog(mm, "[" \o msg.serverName \o "] < " \o out), NilCmd)

\* case rconResultMsg, with a change: a result is dropped unless the status
\* still says that a command is being sent
UpdateRconResultDropsStale(mm, msg) ==
    IF mm.statusLine # "Sending..."
    THEN Result(mm, NilCmd)
    ELSE IF msg.err # ""
    THEN Result(setStatus(pushLog(mm, "[" \o msg.serverName \o "] (!) ERROR: "
                                       \o msg.err),
                          "Command failed"),
                NilCmd)
    ELSE LET out == IF msg.output = "" THEN "(no response)" ELSE msg.output
         IN Result(setStatus(pushLog(mm, "[" \o msg.serverName \o "] < " \o out),
                             "OK"),
                   NilCmd)

\* case rconResultMsg, with a change: a failed command is sent again to the
\* active server
UpdateRconResultRetries(mm, msg) ==
    IF msg.err # ""
    THEN Result(setStatus(pushLog(mm, "[" \o msg.serverName \o "] (!) ERROR: "
                                       \o msg.err),
                          "Command failed"),
                IF hasActiveServer(mm)
                THEN Cmd("rcon", activeServer(mm), msg.label)
                ELSE NilCmd)
    ELSE LET out == IF msg.output = "" THEN "(no response)" ELSE msg.output
         IN Result(setStatus(pushLog(mm, "[" \o msg.serverName \o "] < " \o out),
                             "OK"),
                   NilCmd)

\* case rconResultMsg, with a change: the line is tagged with the server that
\* is active when the result arrives
UpdateRconResultTagsActive(mm, msg) ==
    IF msg.err # ""
    THEN Result(setStatus(pushLog(mm, "[" \o mm.activeName \o "] (!) ERROR: "
                                       \o msg.err),
                          "Command failed"),
                NilCmd)
    ELSE LET out == IF msg.output = "" THEN "(no response)" ELSE msg.output
         IN Result(setStatus(pushLog(mm, "[" \o mm.activeName \o "] < " \o out),
                             "OK"),
                   NilCmd)

\* case rconResultMsg
UpdateRconResult(mm, msg) ==
    IF msg.err # ""
    THEN Result(setStatus(pushLog(mm, "[" \o msg.serverName \o "] (!) ERROR: "
                                       \o msg.err),
                          "Command failed"),
                NilCmd)
    ELSE LET out == IF msg.output = "" THEN "(no response)" ELSE msg.output
         IN Result(setStatus(pushLog(mm, "[" \o msg.serverName \o "] < " \o out),
                             "OK"),
                   NilCmd)

\* case dockerResultMsg, with a change: an empty output is logged as it is
UpdateDockerResultNoSubstitute(mm, msg) ==
    IF msg.err # ""
    THEN Result(setStatus(pushLog(mm, "[" \o msg.serverName \o "] (docker) ERROR: "
                                       \o msg.err),
                          "Docker " \o msg.label \o " failed"),
                NilCmd)
    ELSE Result(setStatus(pushLog(mm, "[" \o msg.serverName \o "] (docker) "
                                       \o msg.label \o ": " \o msg.output),
                          "Docker " \o msg.label \o " OK"),
                NilCmd)

\* case dockerResultMsg, with a change: the error line names the action too
UpdateDockerResultTagsAction(mm, msg) ==
    IF msg.err # ""
    THEN Result(setStatus(pushLog(mm, "[" \o msg.serverName \o "] (docker) "
                                       \o msg.label \o " ERROR: " \o msg.err),
                          "Docker " \o msg.label \o " failed"),
                NilCmd)
    ELSE LET out == IF msg.output = "" THEN "success" ELSE msg.output
         IN Result(setStatus(pushLog(mm, "[" \o msg.serverName \o "] (docker) "
                                          \o msg.label \o ": " \o out),
                             "Docker " \o msg.label \o " OK"),
                   NilCmd)

\* case dockerResultMsg
UpdateDockerResult(mm, msg) ==
    IF msg.err # ""
    THEN Result(setStatus(pushLog(mm, "[" \o msg.serverName \o "] (docker) ERROR: "
                                       \o msg.err),
                          "Docker " \o msg.label \o " failed"),
                NilCmd)
    ELSE LET out == IF msg.output = "" THEN "success" ELSE msg.output
         IN Result(setStatus(pushLog(mm, "[" \o msg.serverName \o "] (docker) "
                                          \o msg.label \o ": " \o out),
                             "Docker " \o msg.label \o " OK"),
                   NilCmd)

\* the fall-through: m.input.Update(msg), m.list.Update(msg).  The list moves
\* its cursor on up/down and stops at either end; the textarea inserts runes.
UpdateForward(mm, msg) ==
    LET total == Len(mm.servers)
        idx == mm.listIndex
    IN IF msg.type # "KeyMsg" THEN Result(mm, BatchCmd)
       ELSE IF msg.key = "down"
       THEN Result([mm EXCEPT !.listIndex = IF idx + 1 < total THEN idx + 1 ELSE idx],
                   BatchCmd)
       ELSE IF msg.key = "up"
       THEN Result([mm EXCEPT !.listIndex = IF idx > 0 THEN idx - 1 ELSE idx],
                   BatchCmd)
       ELSE Result([mm EXCEPT !.input = @ \o msg.key], BatchCmd)

\* model.Update(msg)
Update(mm, msg) ==
    CASE msg.type = "WindowSizeMsg" -> UpdateWindowSize(mm, msg.width, msg.height)
      [] msg.type = "KeyMsg" /\ msg.key = "ctrl+c" -> UpdateCtrlC(mm)
      [] msg.type = "KeyMsg" /\ msg.key = "tab" -> UpdateTab(mm)
      [] msg.type = "KeyMsg" /\ msg.key \in ContainerKeys ->
            UpdateContainerKey(mm, msg.key)
      [] msg.type = "KeyMsg" /\ msg.key = "enter" -> UpdateEnter(mm)
      [] msg.type = "rconResultMsg" -> UpdateRconResult(mm, msg)
      [] msg.type = "dockerResultMsg" -> UpdateDockerResult(mm, msg)
      [] OTHER -> UpdateForward(mm, msg)

-----------------------------------------------------------------------------
(* The commands: sendRCONCmd and dockerAction *)

\* what the network and docker may answer
DialErrors == {"connection refused"}
\* client.Execute(cmd): the response and the error
ExecOutcomes ==
    {[resp |-> "Online", err |-> ""], [resp |-> "", err |-> ""],
     [resp |-> "", err |-> "EOF"]}
\* cmd.CombinedOutput(): the output and the error
DockerOutcomes ==
    {[output |-> "running", err |-> ""], [output |-> "", err |-> ""],
     [output |-> "No such container", err |-> "exit status 1"]}

\* A launched command.  pc: "launched", "connected" (RCON, after Dial),
\* "returned" (the closure has returned its message), "delivered" (Update has
\* processed it).  conn: the RCON connection, "none", "open" or "closed".
\* calls: how often the task ran the docker binary.  out: the messages the
\* closure returned.
Task(cmd) ==
    [kind |-> cmd.kind, s |-> cmd.s, arg |-> cmd.arg, pc |-> "launched",
     conn |-> "none", calls |-> 0, out |-> <<>>]

\* rcon.Dial, with a slip: on an error the closure returns nil
rconDialNilOnError(t, dialErr) ==
    IF dialErr # ""
    THEN [t EXCEPT !.pc = "returned"]
    ELSE [t EXCEPT !.pc = "connected", !.conn = "open"]

\* sendRCONCmd, rcon.Dial: on an error the closure returns the failure
rconDial(t, dialErr) ==
    IF dialErr # ""
    THEN [t EXCEPT !.pc = "returned",
                   !.out = Append(@, rconResultMsg(t.s.Name, t.arg, "",
                                                   "failed to connect: " \o dialErr))]
    ELSE [t EXCEPT !.pc = "connected", !.conn = "open"]

\* sendRCONCmd, client.Execute and the return, with a slip: no deferred
\* client.Close()
rconExecuteLeaks(t, o) ==
    [t EXCEPT !.pc = "returned",
              !.out = Append(@, rconResultMsg(t.s.Name, t.arg, o.resp, o.err))]

\* sendRCONCmd, client.Execute, the return and the deferred client.Close()
rconExecute(t, o) ==
    [t EXCEPT !.pc = "returned",
              !.conn = "closed",
              !.out = Append(@, rconResultMsg(t.s.Name, t.arg, o.resp, o.err))]

\* dockerAction's closure, o being what docker answers if it is run
dockerAction(t, o) ==
    IF t.s.Container = ""
    THEN [t EXCEPT !.pc = "returned",
                   !.out = Append(@, dockerResultMsg(t.s.Name, t.arg, "",
                                                     "no container configured"))]
    ELSE IF t.arg \notin {"start", "stop", "restart", "status"}
    THEN [t EXCEPT !.pc = "returned",
                   !.out = Append(@, dockerResultMsg(t.s.Name, t.arg, "",
                                                     "unknown action: " \o t.arg))]
    ELSE [t EXCEPT !.pc = "returned",
                   !.calls = @ + 1,
                   !.out = Append(@, dockerResultMsg(t.s.Name, t.arg, o.output, o.err))]

-----------------------------------------------------------------------------
(* The program: main, the event loop, the command goroutines *)

Init ==
    /\ config \in Configs
    /\ phase = "boot"
    /\ exitCode = -1
    /\ m = NoModel
    /\ tasks = <<>>
    /\ quitCmd = FALSE

\* what Run may report when the program cannot start: "" is a start
RunStartErrors == {"", "could not open a new TTY"}

\* main: loadConfig, then exit 1, or Run on initialModel(servers): the event
\* loop starts, or Run returns an error at once (the terminal cannot be
\* opened) and main exits with code 1
Main ==
    /\ phase = "boot"
    /\ LET r == loadConfig(config)
       IN IF r.err # "" \/ Len(r.servers) = 0
          THEN /\ phase' = "exited"
               /\ exitCode' = 1
               /\ m' = m
          ELSE \E runErr \in RunStartErrors :
                  IF runErr # ""
                  THEN /\ phase' = "exited"
                       /\ exitCode' = 1
                       /\ m' = m
                  ELSE /\ phase' = "running"
                       /\ exitCode' = exitCode
                       /\ m' = initialModel(r.servers)
    /\ UNCHANGED <<config, tasks, quitCmd>>

\* what the runtime does with the command Update returns
Launch(cmd) ==
    /\ tasks' = IF cmd.kind \in {"rcon", "docker"} THEN Append(tasks, Task(cmd))
                ELSE tasks
    /\ quitCmd' = (quitCmd \/ cmd.kind = "quit")

\* the event loop takes msg: model, cmd = model.Update(msg), cmd is launched
Dispatch(msg) ==
    /\ phase = "running"
    /\ LET r == Update(m, msg)
       IN /\ Len(r.m.pushed) <= MaxAppends
          /\ Len(r.m.input) <= MaxInputLen
          /\ r.cmd.kind \in {"rcon", "docker"} => Len(tasks) < MaxTasks
          /\ m' = r.m
          /\ Launch(r.cmd)
    /\ UNCHANGED <<config, phase, exitCode>>

Resize == \E sz \in Sizes : Dispatch(WindowSizeMsg(sz[1], sz[2]))
KeyCtrlC == Dispatch(KeyMsg("ctrl+c"))
KeyTab == Dispatch(KeyMsg("tab"))
KeyCtrlS == Dispatch(KeyMsg("ctrl+s"))
KeyCtrlX == Dispatch(KeyMsg("ctrl+x"))
KeyCtrlR == Dispatch(KeyMsg("ctrl+r"))
KeyCtrlD == Dispatch(KeyMsg("ctrl+d"))
KeyEnter == Dispatch(KeyMsg("enter"))
KeyOther == \E k \in NavKeys \cup TextKeys : Dispatch(KeyMsg(k))

\* a command goroutine's steps
RconDial(i) ==
    /\ phase = "running"
    /\ i \in DOMAIN tasks
    /\ tasks[i].kind = "rcon" /\ tasks[i].pc = "launched"
    /\ \E e \in DialErrors \cup {""} : tasks' = [tasks EXCEPT ![i] = rconDial(@, e)]
    /\ UNCHANGED <<config, phase, exitCode, m, quitCmd>>

RconExecute(i) ==
    /\ phase = "running"
    /\ i \in DOMAIN tasks
    /\ tasks[i].kind = "rcon" /\ tasks[i].pc = "connected"
    /\ \E o \in ExecOutcomes : tasks' = [tasks EXCEPT ![i] = rconExecute(@, o)]
    /\ UNCHANGED <<config, phase, exitCode, m, quitCmd>>

DockerRun(i) ==
    /\ phase = "running"
    /\ i \in DOMAIN tasks
    /\ tasks[i].kind = "docker" /\ tasks[i].pc = "launched"
    /\ \E o \in DockerOutcomes : tasks' = [tasks EXCEPT ![i] = dockerAction(@, o)]
    /\ UNCHANGED <<config, phase, exitCode, m, quitCmd>>

\* the event loop takes the message a command returned (the runtime drops a
\* nil message)
Deliver(i) ==
    /\ phase = "running"
    /\ i \in DOMAIN tasks
    /\ tasks[i].pc = "returned"
    /\ tasks[i].out # <<>>
    /\ LET msg == tasks[i].out[1]
           r == Update(m, msg)
           marked == [tasks EXCEPT ![i].pc = "delivered"]
       IN /\ m' = r.m
          /\ tasks' = IF r.cmd.kind \in {"rcon", "docker"}
                      THEN Append(marked, Task(r.cmd))
                      ELSE marked
          /\ quitCmd' = (quitCmd \/ r.cmd.kind = "quit")
    /\ UNCHANGED <<config, phase, exitCode>>

\* the event loop takes tea.Quit's message: Run returns and main returns, so
\* the process ends with code 0, and its model and goroutines with it
QuitMsg ==
    /\ phase = "running"
    /\ quitCmd
    /\ phase' = "exited"
    /\ exitCode' = 0
    /\ quitCmd' = FALSE
    /\ m' = NoModel
    /\ tasks' = <<>>
    /\ UNCHANGED config

\* Run returns an error while the event loop runs (the program is killed or
\* interrupted, its input fails): main logs it and exits with code 1, and the
\* model and the goroutines end with the process
RunError ==
    /\ phase = "running"
    /\ phase' = "exited"
    /\ exitCode' = 1
    /\ quitCmd' = FALSE
    /\ m' = NoModel
    /\ tasks' = <<>>
    /\ UNCHANGED config

Next ==
    \/ Main
    \/ Resize
    \/ KeyCtrlC
    \/ KeyTab
    \/ KeyCtrlS
    \/ KeyCtrlX
    \/ KeyCtrlR
    \/ KeyCtrlD
    \/ KeyEnter
    \/ KeyOther
    \/ \E i \in 1..Len(tasks) : RconDial(i)
    \/ \E i \in 1..Len(tasks) : RconExecute(i)
    \/ \E i \in 1..Len(tasks) : DockerRun(i)
    \/ \E i \in 1..Len(tasks) : Deliver(i)
    \/ QuitMsg
    \/ RunError

Spec == Init /\ [][Next]_vars

\* some command goroutine takes its next step
CommandStep ==
    \E i \in DOMAIN tasks : RconDial(i) \/ RconExecute(i) \/ DockerRun(i)

\* the goroutine scheduler is fair: while some command can take a step, one
\* does; and tea.Quit's message, once sent, is taken
Fairness == WF_vars(CommandStep) /\ WF_vars(QuitMsg)

\* the session whose progress is checked: server A, without a container, and
\* server B, with one
FairConfig == [err |-> "", cause |-> "", servers |-> <<sA, sB>>]

InitFair ==
    /\ config = FairConfig
    /\ phase = "boot"
    /\ exitCode = -1
    /\ m = NoModel
    /\ tasks = <<>>
    /\ quitCmd = FALSE

SpecFair == InitFair /\ [][Next]_vars /\ Fairness

-----------------------------------------------------------------------------
(* The long log run: a session on two servers in which a few keys of either *)
(* kind are followed by tab presses until the log has overrun maxLines      *)

LogConfig == [err |-> "", cause |-> "", servers |-> <<sA, sB>>]

InitLog ==
    /\ config = LogConfig
    /\ phase = "running"
    /\ exitCode = -1
    /\ m = initialModel(loadConfig(LogConfig).servers)
    /\ tasks = <<>>
    /\ quitCmd = FALSE

\* the event loop takes msg, as in Dispatch, with no bound on the log
DispatchLong(msg) ==
    /\ phase = "running"
    /\ LET r == Update(m, msg)
       IN /\ m' = r.m
          /\ Launch(r.cmd)
    /\ UNCHANGED <<config, phase, exitCode>>

\* the first LogMix keys: tab or ctrl+s
LogMixedKey ==
    /\ Len(m.pushed) < 2 + LogMix
    /\ \E k \in {"tab", "ctrl+s"} : DispatchLong(KeyMsg(k))

\* then tab presses
LogTab ==
    /\ Len(m.pushed) >= 2 + LogMix
    /\ Len(m.pushed) < maxLines + LogOverrun
    /\ DispatchLong(KeyMsg("tab"))

NextLog == LogMixedKey \/ LogTab

SpecLog == InitLog /\ [][NextLog]_vars

-----------------------------------------------------------------------------
(* Helpers of the properties *)

Min(a, b) == IF a < b THEN a ELSE b

\* the last n elements of s
LastN(s, n) == SubSeq(s, Len(s) - n + 1, Len(s))

\* the model after k tab presses in a row
RECURSIVE TabTimes(_, _)
TabTimes(mm, k) == IF k = 0 THEN mm ELSE TabTimes(UpdateTab(mm).m, k - 1)

\* the registry has an entry named name
Registered(mm, name) == \E i \in 1..Len(mm.servers) : mm.servers[i].Name = name

\* the name of the entry the list has selected
SelectedName(mm) == mm.servers[mm.listIndex + 1].Name

-----------------------------------------------------------------------------
(* Properties *)

\* C1: every tab press leaves activeName equal to the name of the registry
\* entry at the list's index.
C1_TabSelectsEntry ==
    [][KeyTab => m'.activeName = SelectedName(m')]_vars

\* C1: a tab press has moved a three-server list past its second entry.
C1_Witness ==
    /\ phase = "running"
    /\ Len(m.servers) = 3
    /\ m.listIndex = 2
    /\ m.pushed[Len(m.pushed)] = "Active server: A"

\* C2 as stated: N+1 tab presses in a row, N the registry's size, bring the
\* list's index and activeName back to what they were.
C2_Original ==
    phase = "running" =>
        LET after == TabTimes(m, Len(m.servers) + 1)
        IN after.listIndex = m.listIndex /\ after.activeName = m.activeName

\* C2 amended: N tab presses in a row bring the list's index back to what it
\* was and leave activeName the name of the entry at that index, which is
\* what it was whenever activeName named the selected entry before.
C2_TabCycle ==
    phase = "running" =>
        LET after == TabTimes(m, Len(m.servers))
        IN /\ after.listIndex = m.listIndex
           /\ after.activeName = SelectedName(m)
           /\ m.activeName = SelectedName(m) => after.activeName = m.activeName

\* C2: two tab presses in a row on two servers are back at the first.
C2_Witness ==
    /\ phase = "running"
    /\ m.servers = <<sA, sB>>
    /\ m.pushed = <<"Ready.", "Active server: A", "Active server: B",
                    "Active server: A">>
    /\ m.listIndex = 0
    /\ m.activeName = "A"

\* C3: activeName is empty or the name of a registry entry, in every state.
C3_ActiveNameRegistered ==
    m.activeName = "" \/ Registered(m, m.activeName)

\* C3: a state past a resize, a tab press, a launched command, its result and
\* a quit key, with an active server.
C3_Witness ==
    /\ phase = "running"
    /\ m.activeName = "B"
    /\ m.width = 80
    /\ m.quitting
    /\ \E i \in 1..Len(tasks) : tasks[i].pc = "delivered"

\* C4: the log holds at most maxLines lines and is, in order, the last
\* min(maxLines, k) of the k lines pushed since startup.
C4_LogIsLastLines ==
    /\ Len(m.logLines) <= maxLines
    /\ m.logLines = LastN(m.pushed, Min(maxLines, Len(m.pushed)))

\* C4: more than maxLines lines were pushed and "Ready." is gone.
C4_Witness ==
    /\ Len(m.pushed) > maxLines + 1
    /\ Len(m.logLines) = maxLines
    /\ m.logLines[1] # "Ready."

\* C5: an enter key on an empty input leaves the log, the status and
\* activeName as they were and launches nothing.
C5_EmptySubmitNoOp ==
    [][(KeyEnter /\ m.input = "") =>
          /\ m'.logLines = m.logLines
          /\ m'.pushed = m.pushed
          /\ m'.statusLine = m.statusLine
          /\ m'.activeName = m.activeName
          /\ tasks' = tasks]_vars

\* C5: a state an enter key on an empty input is taken in, and leaves as it
\* is: the input is empty while an earlier command is in flight.
C5_Witness ==
    /\ phase = "running"
    /\ m.input = ""
    /\ hasActiveServer(m)
    /\ m.statusLine = "Sending..."
    /\ \E i \in 1..Len(tasks) : tasks[i].pc = "launched"

\* the actions dockerAction may be called with, one of them unknown
AnyActions == {"start", "stop", "restart", "status", "pause"}

\* C6: a container key whose active server has no container pushes the
\* "No container configured" warning, leaves the status and launches nothing;
\* and dockerAction on a server with no container returns an error without
\* running docker.
C6_NoContainerNoDocker ==
    /\ [][\A k \in ContainerKeys :
            (Dispatch(KeyMsg(k)) /\ hasActiveServer(m)
                /\ activeServer(m).Container = "") =>
               /\ m'.pushed = Append(m.pushed, "[" \o activeServer(m).Name
                                               \o "] (!) No container configured")
               /\ m'.statusLine = m.statusLine
               /\ tasks' = tasks]_vars
    /\ [](\A s \in ServerConfigs \cup {NoServer}, a \in AnyActions,
            o \in DockerOutcomes :
            s.Container = "" =>
               LET t == dockerAction(Task(Cmd("docker", s, a)), o)
               IN /\ t.calls = 0
                  /\ Len(t.out) = 1
                  /\ t.out[1].err = "no container configured"
                  /\ t.out[1].serverName = s.Name)

\* C6: a container key was pressed with server A, which has no container,
\* active.
C6_Witness ==
    /\ phase = "running"
    /\ m.pushed[Len(m.pushed)] = "[A] (!) No container configured"
    /\ m.statusLine = ""
    /\ tasks = <<>>

\* C7: with the registry <<A>>, the session starts with A active; an enter key
\* on "status" pushes "[A] > status", sets the status "Sending..." and
\* launches one RCON command for A; the delivery of its result "Online"
\* pushes "[A] < Online", behind the echo line, and sets the status "OK".
C7_StatusScenario ==
    /\ [](phase = "running" /\ m.servers = <<sA>> /\ Len(m.pushed) = 2
             => m.activeName = "A")
    /\ [][(m.servers = <<sA>> /\ m.input = "status" /\ KeyEnter) =>
             /\ m'.pushed = Append(m.pushed, "[A] > status")
             /\ m'.statusLine = "Sending..."
             /\ tasks' = Append(tasks, Task(Cmd("rcon", sA, "status")))]_vars
    /\ [][\A i \in DOMAIN tasks :
             (Deliver(i) /\ tasks[i].out[1] = rconResultMsg("A", "status", "Online", ""))
             =>
             /\ m'.pushed = Append(m.pushed, "[A] < Online")
             /\ \E j \in 1..Len(m.pushed) : m.pushed[j] = "[A] > status"
             /\ m'.statusLine = "OK"]_vars

\* C7: the scenario has run to its end.
C7_Witness ==
    /\ phase = "running"
    /\ m.servers = <<sA>>
    /\ m.logLines = <<"Ready.", "Active server: A", "[A] > status", "[A] < Online">>
    /\ m.statusLine = "OK"
    /\ Len(tasks) = 1 /\ tasks[1].pc = "delivered"

\* a command has returned its message
Returned(t) == t.pc \in {"returned", "delivered"}

\* a command never returns two messages, and one that has returned has
\* returned one; each path of either closure returns one message
OneResultEach ==
    /\ \A i \in DOMAIN tasks :
          /\ Len(tasks[i].out) <= 1
          /\ Returned(tasks[i]) => Len(tasks[i].out) = 1
    /\ \A s \in ServerConfigs \cup {NoServer}, a \in AnyActions :
          /\ \A o \in DockerOutcomes :
                LET t == dockerAction(Task(Cmd("docker", s, a)), o)
                IN Returned(t) /\ Len(t.out) = 1
          /\ \A e \in DialErrors :
                LET t == rconDial(Task(Cmd("rcon", s, a)), e)
                IN Returned(t) /\ Len(t.out) = 1
          /\ \A o \in ExecOutcomes :
                LET t == rconExecute(rconDial(Task(Cmd("rcon", s, a)), ""), o)
                IN Returned(t) /\ Len(t.out) = 1

\* C8 as stated: a launched command returns at most one message, and under
\* a fair scheduler it returns one.
C8_Original ==
    /\ []OneResultEach
    /\ \A i \in 1..MaxTasks :
          (i \in DOMAIN tasks) ~> (i \in DOMAIN tasks /\ Returned(tasks[i]))

\* C8 amended: a launched command returns at most one message, and under a
\* fair scheduler it returns one unless the process has exited before.
C8_OneResultUnlessExit ==
    /\ []OneResultEach
    /\ \A i \in 1..MaxTasks :
          (i \in DOMAIN tasks) ~>
             (phase = "exited" \/ (i \in DOMAIN tasks /\ Returned(tasks[i])))

\* C8: two commands have each returned their one message, the first on the
\* connect failure, the second after Execute.
C8_Witness ==
    /\ phase = "running"
    /\ Len(tasks) = 2
    /\ Returned(tasks[1]) /\ Returned(tasks[2])
    /\ Len(tasks[1].out) = 1 /\ Len(tasks[2].out) = 1
    /\ tasks[1].conn = "none" /\ tasks[1].out[1].err # ""
    /\ tasks[2].conn = "closed"

\* C9 as stated: once the quit key is processed, no later event changes the
\* log, the status or activeName, or launches a command.
C9_QuitIsTerminal ==
    [][(m.quitting /\ phase' = "running") =>
          /\ m'.logLines = m.logLines
          /\ m'.statusLine = m.statusLine
          /\ m'.activeName = m.activeName
          /\ Len(tasks') = Len(tasks)]_vars

\* C10: a submit or container key while a command is in flight launches one
\* more; every returned message can be delivered, and its delivery pushes
\* one line, at the end of the log, tagged with the message's server.
C10_ResultsInArrivalOrder ==
    /\ [][\A k \in ContainerKeys \cup {"enter"} :
            (/\ Dispatch(KeyMsg(k))
             /\ hasActiveServer(m)
             /\ k = "enter" => m.input # ""
             /\ k \in ContainerKeys => activeServer(m).Container # ""
             /\ \E i \in DOMAIN tasks : tasks[i].pc # "delivered")
            => /\ Len(tasks') = Len(tasks) + 1
               /\ SubSeq(tasks', 1, Len(tasks)) = tasks
               /\ tasks'[Len(tasks')].pc = "launched"]_vars
    /\ [](\A i \in DOMAIN tasks :
            (phase = "running" /\ tasks[i].pc = "returned") => ENABLED Deliver(i))
    /\ [][\A i \in DOMAIN tasks :
            Deliver(i) =>
               /\ Len(m'.pushed) = Len(m.pushed) + 1
               /\ SubSeq(m'.pushed, 1, Len(m.pushed)) = m.pushed
               /\ \E rest \in {" < " \o tasks[i].out[1].output, " < (no response)",
                               " (docker) " \o tasks[i].out[1].label \o ": "
                                  \o tasks[i].out[1].output,
                               " (docker) " \o tasks[i].out[1].label \o ": success",
                               " (!) ERROR: " \o tasks[i].out[1].err,
                               " (docker) ERROR: " \o tasks[i].out[1].err} :
                     m'.pushed[Len(m'.pushed)] =
                        "[" \o tasks[i].out[1].serverName \o "]" \o rest]_vars

\* C10: two commands were in flight together and the second one's result was
\* delivered, and logged, before the first one's.
C10_Witness ==
    /\ phase = "running"
    /\ Len(tasks) = 2
    /\ tasks[1].pc = "delivered" /\ tasks[2].pc = "delivered"
    /\ tasks[1].out[1].output = "Online" /\ tasks[1].out[1].err = ""
    /\ tasks[2].out[1].output = "" /\ tasks[2].out[1].err = ""
    /\ m.pushed = <<"Ready.", "Active server: A", "[A] > status", "[A] > status",
                    "[A] < (no response)", "[A] < Online">>

-----------------------------------------------------------------------------
\* the last line appended to the log
LastPushed(mm) == mm.pushed[Len(mm.pushed)]

\* C11: processing a result without an error appends one line that ends with
\* the output it carries when that is not empty, and with "(no response)" for
\* a remote-console result, "success" for a container result, when it is.
C11_EmptyOutputSubstituted ==
    [][\A i \in DOMAIN tasks :
         (Deliver(i) /\ tasks[i].out[1].err = "") =>
            LET msg == tasks[i].out[1]
                shown == IF msg.output # "" THEN msg.output
                         ELSE IF tasks[i].kind = "rcon" THEN "(no response)"
                         ELSE "success"
                lead == IF tasks[i].kind = "rcon"
                        THEN "[" \o tasks[i].s.Name \o "] < "
                        ELSE "[" \o tasks[i].s.Name \o "] (docker) "
                                \o tasks[i].arg \o ": "
            IN /\ Len(m'.pushed) = Len(m.pushed) + 1
               /\ LastPushed(m') = lead \o shown]_vars

\* C11: a container action returned an empty output without an error, and
\* the line its result appended ends with the substitute.
C11_Witness ==
    /\ phase = "running"
    /\ \E i \in DOMAIN tasks :
          /\ tasks[i].kind = "docker" /\ tasks[i].pc = "delivered"
          /\ tasks[i].arg = "start"
          /\ tasks[i].out[1].output = "" /\ tasks[i].out[1].err = ""
    /\ LastPushed(m) = "[B] (docker) start: success"

\* s ends with the string suffix
EndsWith(s, suffix) ==
    /\ Len(s) >= Len(suffix)
    /\ SubSeq(s, Len(s) - Len(suffix) + 1, Len(s)) = suffix

\* C12: processing a result that carries an error launches nothing (the tasks
\* are the same ones, the processed one marked), appends exactly one line,
\* which ends with "ERROR: " and the cause, sets a status that ends with
\* "failed", and leaves the session running: the program has not exited, no
\* quit is pending that was not before, and everything Update's handling of a
\* later event depends on (registry, selection, active server, input) is as
\* it was.
C12_ErrorResultIsLocal ==
    [][\A i \in DOMAIN tasks :
         (Deliver(i) /\ tasks[i].out[1].err # "") =>
            /\ tasks' = [tasks EXCEPT ![i].pc = "delivered"]
            /\ Len(m'.pushed) = Len(m.pushed) + 1
            /\ SubSeq(m'.pushed, 1, Len(m.pushed)) = m.pushed
            /\ EndsWith(LastPushed(m'), "ERROR: " \o tasks[i].out[1].err)
            /\ EndsWith(m'.statusLine, "failed")
            /\ phase' = "running"
            /\ quitCmd' = quitCmd
            /\ m'.quitting = m.quitting
            /\ m'.servers = m.servers
            /\ m'.listIndex = m.listIndex
            /\ m'.activeName = m.activeName
            /\ m'.input = m.input]_vars

\* C12: the result of a command whose connection failed has been processed,
\* and the session keeps running.
C12_Witness ==
    /\ phase = "running"
    /\ ~quitCmd
    /\ \E i \in DOMAIN tasks :
          /\ tasks[i].pc = "delivered"
          /\ tasks[i].out[1].err = "failed to connect: connection refused"
    /\ LastPushed(m) = "[A] (!) ERROR: failed to connect: connection refused"
    /\ m.statusLine = "Command failed"

\* the string sub occurs in s
Contains(s, sub) ==
    \E k \in 1..(Len(s) - Len(sub) + 1) : SubSeq(s, k, k + Len(sub) - 1) = sub

\* C13 as stated: the line a failed container result appends holds
\* "ERROR: <cause>", the server name and the action, and the status is
\* "<action> failed"; a successful one appends "<action>: <output>" and the
\* status is "<action> OK".
C13_Original ==
    [][\A i \in DOMAIN tasks :
         (Deliver(i) /\ tasks[i].kind = "docker") =>
            LET msg == tasks[i].out[1]
                line == LastPushed(m')
            IN IF msg.err # ""
               THEN /\ Contains(line, "ERROR: " \o msg.err)
                    /\ Contains(line, "[" \o tasks[i].s.Name \o "]")
                    /\ Contains(line, tasks[i].arg)
                    /\ EndsWith(m'.statusLine, tasks[i].arg \o " failed")
               ELSE /\ Contains(line, tasks[i].arg \o ": ")
                    /\ EndsWith(m'.statusLine, tasks[i].arg \o " OK")]_vars

\* C13: the line a failed container result appends is
\* "[<server>] (docker) ERROR: <cause>", tagged with the server name only, and
\* the status is "Docker <action> failed"; a successful one appends
\* "[<server>] (docker) <action>: <output>", "success" standing for an empty
\* output, and the status is "Docker <action> OK".
C13_DockerResultLines ==
    [][\A i \in DOMAIN tasks :
         (Deliver(i) /\ tasks[i].kind = "docker") =>
            LET msg == tasks[i].out[1]
                line == LastPushed(m')
                tag == "[" \o tasks[i].s.Name \o "] (docker) "
            IN IF msg.err # ""
               THEN /\ line = tag \o "ERROR: " \o msg.err
                    /\ m'.statusLine = "Docker " \o tasks[i].arg \o " failed"
               ELSE /\ \/ msg.output # "" /\ line = tag \o tasks[i].arg \o ": "
                                                       \o msg.output
                       \/ msg.output = "" /\ line = tag \o tasks[i].arg
                                                       \o ": success"
                    /\ m'.statusLine = "Docker " \o tasks[i].arg \o " OK"]_vars

\* C13: the start of a container failed, and the line in the log names the
\* server and the cause but not the action, which only the status names.
C13_Witness ==
    /\ phase = "running"
    /\ \E i \in DOMAIN tasks :
          /\ tasks[i].kind = "docker" /\ tasks[i].pc = "delivered"
          /\ tasks[i].arg = "start"
          /\ tasks[i].out[1].err = "exit status 1"
    /\ LastPushed(m) = "[B] (docker) ERROR: exit status 1"
    /\ ~Contains(LastPushed(m), "start")
    /\ m.statusLine = "Docker start failed"

\* C14: when config.yaml is read and parsed and lists no server, loadConfig
\* returns an error and the program never runs the event loop: it is about to
\* start or has exited with code 1, there is no model, no command was
\* launched, so no event was ever processed.
C14_EmptyRegistryNoSession ==
    (config.err = "" /\ config.servers = <<>>) =>
        /\ loadConfig(config).err = "no servers defined in " \o cfgPath
        /\ phase \in {"boot", "exited"}
        /\ phase = "exited" => exitCode = 1
        /\ m = NoModel
        /\ tasks = <<>>
        /\ ~quitCmd

\* C14: the program was started on a config file with an empty servers list
\* and has exited with code 1.
C14_Witness ==
    /\ config.err = "" /\ config.servers = <<>>
    /\ phase = "exited"
    /\ exitCode = 1

\* no active server is set: activeName is empty or names no entry
NoActiveServerSet(mm) ==
    \/ mm.activeName = ""
    \/ \A i \in 1..Len(mm.servers) : mm.servers[i].Name # mm.activeName

\* C15: when no active server is set, an enter key on a non-empty input and
\* each of the four container keys append exactly the line
\* "(x) No active server selected.", leave the status as it was and launch
\* nothing.
C15_NoActiveServerNoLaunch ==
    [][\A k \in ContainerKeys \cup {"enter"} :
         (/\ Dispatch(KeyMsg(k))
          /\ NoActiveServerSet(m)
          /\ k = "enter" => m.input # "") =>
            /\ m'.pushed = Append(m.pushed, "(x) No active server selected.")
            /\ m'.logLines = Append(m.logLines, "(x) No active server selected.")
            /\ m'.statusLine = m.statusLine
            /\ tasks' = tasks
            /\ quitCmd' = quitCmd]_vars

\* C15: the first server of the registry has an empty name, so no active
\* server is set; two submitted commands or container keys met that, and the
\* log holds their two error lines while nothing was launched.
C15_Witness ==
    /\ phase = "running"
    /\ NoActiveServerSet(m)
    /\ m.input = ""
    /\ m.pushed = <<"Ready.", "Active server: ",
                    "(x) No active server selected.",
                    "(x) No active server selected.">>
    /\ m.statusLine = ""
    /\ tasks = <<>>

\* the tasks whose connection is open, and the tasks still running
OpenConns == {i \in DOMAIN tasks : tasks[i].conn = "open"}
InFlight == {i \in DOMAIN tasks : tasks[i].pc \in {"launched", "connected"}}

\* C16: a task whose closure has returned, on a failed Dial, a failed Execute
\* or a success, holds no open connection, and so does a task whose result
\* was delivered; only a control-protocol task that is still running holds
\* one, so the open connections are never more than the tasks in flight; and
\* a task opens a connection only if it never had one before.
C16_ConnectionReleased ==
    /\ [](/\ \A i \in DOMAIN tasks :
               /\ tasks[i].pc \in {"returned", "delivered"} =>
                     tasks[i].conn \in {"none", "closed"}
               /\ tasks[i].conn = "open" =>
                     tasks[i].kind = "rcon" /\ tasks[i].pc = "connected"
               /\ (Returned(tasks[i]) /\ tasks[i].out # <<>>
                      /\ tasks[i].kind = "rcon"
                      /\ tasks[i].out[1].err \notin
                            {"failed to connect: " \o e : e \in DialErrors}) =>
                     tasks[i].conn = "closed"
          /\ OpenConns \subseteq InFlight
          /\ Cardinality(OpenConns) <= Cardinality(InFlight))
    /\ [][\A i \in DOMAIN tasks :
            (i \in DOMAIN tasks' /\ tasks'[i].conn = "open"
                /\ tasks[i].conn # "open") => tasks[i].conn = "none"]_vars

\* C16: one command's Execute failed and its result was delivered, its
\* connection closed, while a second command is connected and holds the one
\* open connection.
C16_Witness ==
    /\ phase = "running"
    /\ Len(tasks) = 2
    /\ tasks[1].pc = "delivered" /\ tasks[1].conn = "closed"
    /\ tasks[1].out[1].err = "EOF"
    /\ tasks[2].pc = "connected" /\ tasks[2].conn = "open"
    /\ OpenConns = {2}

\* C17: a key that Update forwards to the widgets changes neither activeName,
\* the log nor the status and launches nothing; and the task an enter key or
\* a container key launches has the first registry entry named activeName as
\* its server, wherever the list's cursor is.
C17_LaunchTargetsActiveName ==
    [][/\ \A k \in NavKeys \cup TextKeys :
             Dispatch(KeyMsg(k)) =>
                /\ m'.activeName = m.activeName
                /\ m'.pushed = m.pushed
                /\ m'.logLines = m.logLines
                /\ m'.statusLine = m.statusLine
                /\ tasks' = tasks
       /\ \A k \in ContainerKeys \cup {"enter"} :
             (Dispatch(KeyMsg(k)) /\ Len(tasks') > Len(tasks)) =>
                LET t == tasks'[Len(tasks')]
                IN /\ Len(tasks') = Len(tasks) + 1
                   /\ m.activeName # ""
                   /\ t.s.Name = m.activeName
                   /\ \E j \in 1..Len(m.servers) :
                         /\ m.servers[j] = t.s
                         /\ \A h \in 1..(j - 1) :
                               m.servers[h].Name # m.activeName]_vars

\* C17: the list's cursor is on B, moved there by a forwarded key since
\* activeName is still A, and the command in flight was launched for A.
C17_Witness ==
    /\ phase = "running"
    /\ m.servers = <<sA, sB>>
    /\ m.listIndex = 1
    /\ m.activeName = "A"
    /\ Len(tasks) = 1
    /\ tasks[1].s = sA /\ tasks[1].pc = "launched"
    /\ m.pushed = <<"Ready.", "Active server: A", "[A] > status">>
    /\ m.statusLine = "Sending..."

\* s starts with the string prefix
StartsWith(s, prefix) ==
    /\ Len(s) >= Len(prefix)
    /\ SubSeq(s, 1, Len(prefix)) = prefix

\* C18: the message a command returns carries the name of the server the
\* command was launched for; processing it appends one line that starts with
\* that name in brackets, whichever server is active by then, and changes
\* neither activeName nor the list's cursor.
C18_ResultTaggedWithLaunchServer ==
    /\ [](\A i \in DOMAIN tasks :
             \A k \in DOMAIN tasks[i].out :
                tasks[i].out[k].serverName = tasks[i].s.Name)
    /\ [][\A i \in DOMAIN tasks :
            Deliver(i) =>
               /\ Len(m'.pushed) = Len(m.pushed) + 1
               /\ StartsWith(LastPushed(m'), "[" \o tasks[i].s.Name \o "] ")
               /\ m'.activeName = m.activeName
               /\ m'.listIndex = m.listIndex
               /\ m'.servers = m.servers]_vars

\* C18: a command was submitted on A, tab made B the active server, then A's
\* result arrived: its line is tagged [A] and the active server is still B.
C18_Witness ==
    /\ phase = "running"
    /\ m.servers = <<sA, sB>>
    /\ Len(tasks) = 1
    /\ tasks[1].s = sA /\ tasks[1].pc = "delivered"
    /\ m.pushed = <<"Ready.", "Active server: A", "[A] > status",
                    "Active server: B", "[A] < Online">>
    /\ m.activeName = "B"
    /\ m.listIndex = 1

\* the control-protocol tasks launched whose result Update has not processed
RconPending == {i \in DOMAIN tasks : tasks[i].kind = "rcon" /\ tasks[i].pc # "delivered"}

\* C19: while the program runs, a status of "Sending..." means that the
\* result of at least one launched control-protocol command has not been
\* processed yet.
C19_SendingMeansPending ==
    (phase = "running" /\ m.statusLine = "Sending...") => RconPending # {}

\* C19: the status is "Sending..." and two commands are pending, one of them
\* returned and waiting for its result to be taken, the other connected.
C19_Witness ==
    /\ phase = "running"
    /\ ~m.quitting
    /\ m.statusLine = "Sending..."
    /\ RconPending = {1, 2}
    /\ tasks[1].pc = "returned"
    /\ tasks[2].pc = "connected"

\* C19, the converse fails: the first command's result set the status to
\* "OK" while the second command is still pending.
C19_ConverseFails ==
    /\ phase = "running"
    /\ ~m.quitting
    /\ Len(tasks) = 2
    /\ tasks[1].kind = "rcon" /\ tasks[1].pc = "delivered"
    /\ RconPending = {2}
    /\ m.statusLine = "OK"

\* C20: the model main starts the program on has an empty status; while the
\* program runs, no step makes a non-empty status empty, a tab and a resize
\* included, and View keeps showing the status unless the program is
\* quitting, when it shows nothing; the status is empty exactly as long as no
\* command has been launched, so View shows the description of the active
\* server only then.
C20_StatusNeverCleared ==
    /\ [][(Main /\ phase' = "running") =>
             /\ m'.statusLine = ""
             /\ ViewStatus(m') = ViewFallback(m')]_vars
    /\ [][(phase = "running" /\ phase' = "running" /\ m.statusLine # "") =>
             /\ m'.statusLine # ""
             /\ ViewStatus(m') = IF m'.quitting THEN "" ELSE m'.statusLine
             /\ ViewStatus(m') # ViewFallback(m')]_vars
    /\ [](phase = "running" =>
             /\ m.statusLine = "" <=> tasks = <<>>
             /\ ViewStatus(m) = ViewFallback(m) => tasks = <<>>
             /\ (tasks = <<>> /\ ~m.quitting) => ViewStatus(m) = ViewFallback(m))

\* C20: a command was launched, then tab made B the active server and the
\* window was resized; the status line still shows "Sending...", not the
\* description of B.
C20_Witness ==
    /\ phase = "running"
    /\ m.width = 80
    /\ m.pushed = <<"Ready.", "Active server: A", "[A] > status",
                    "Active server: B">>
    /\ m.activeName = "B"
    /\ ~m.quitting
    /\ m.statusLine = "Sending..."
    /\ ViewStatus(m) = "Sending..."
    /\ ViewFallback(m) = "Active: B (5.6.7.8:27015) | Container: c1"

====
